---- MODULE Spec2Model ----
(***************************************************************************)
(* Model of the HTTP service of main.go: configuration loading             *)
(* (initConfig), client construction (initClients) and the three handlers  *)
(* /chat, /upload and /health, together with the two external providers    *)
(* the handlers call.  Every handler invocation runs in its own goroutine  *)
(* (net/http), so handler steps of different requests interleave at the    *)
(* provider calls.                                                         *)
(***************************************************************************)
EXTENDS Integers, Sequences, FiniteSets, TLC

\* ------------------------------------------------------------- bounds
\* Number of requests that may be in flight at once.
NumWorkers == 2
\* Largest number of choices a completion reply carries.
MaxChoices == 2

Workers == 1..NumWorkers

\* ------------------------------------------------------------- values
\* A key absent from a configuration source.
Unset == "<unset>"
\* Go's nil error.
Nil == "<nil>"

Keys == {"port", "openai_key", "minio_url", "minio_key", "minio_secret"}

\* Values the environment (APP_<KEY>) and config.yaml give the keys.
EnvValue == [port |-> "9090", openai_key |-> "sk-env",
             minio_url |-> "test.example.com:9000",
             minio_key |-> "env-access", minio_secret |-> "env-secret"]
FileValue == [port |-> "3000", openai_key |-> "sk-file",
              minio_url |-> "minio:9000",
              minio_key |-> "file-access", minio_secret |-> "file-secret"]

EnvSources == {e \in [Keys -> {Unset, "sk-env", "9090", "test.example.com:9000",
                                "env-access", "env-secret"}] :
                 \A k \in Keys : e[k] \in {Unset, EnvValue[k]}}
FileSources == {f \in [Keys -> {Unset, "8080", "3000", "sk-file", "minio:9000",
                                 "file-access", "file-secret"}] :
                  \A k \in Keys : f[k] \in {Unset, FileValue[k]}
                                   \/ (k = "port" /\ f[k] = "8080")}

\* Request inputs and provider outcomes.
Messages == {"Hello!"}
BucketNames == {"test"}
FileNames == {"hello.txt", "notes.txt"}
Contents == {"Hello World!"}
ChoiceContents == {"Hi", "Bye"}
ProviderErrors == {"connection refused"}

ChoiceLists == UNION {[1..n -> ChoiceContents] : n \in 0..MaxChoices}

VARIABLES
  env,            \* process environment: APP_<KEY> values
  file,           \* contents of config.yaml (all Unset: no file)
  mainPc,         \* position of main: "initConfig", "initClients", "serve"
  config,         \* var config Config
  openaiClient,   \* var openaiClient *openai.Client (TRUE: non-nil)
  minioClient,    \* var minioClient *minio.Client (TRUE: non-nil)
  pc,             \* position of each handler goroutine
  op,             \* the endpoint each goroutine serves
  input,          \* the request body
  local,          \* the handler's locals: exists, err, resp.Choices
  resp,           \* the response written
  calls,          \* provider calls made by the invocation, in order
  existedAtStart, \* whether the bucket existed when the request arrived
  buckets,        \* storage provider: the buckets that exist
  objects,        \* storage provider: object contents by <<bucket, name>>
  created,        \* storage provider: buckets created, with multiplicity
  backendFaulty   \* storage provider may fail a call for its own reasons

vars == <<env, file, mainPc, config, openaiClient, minioClient, pc, op, input,
          local, resp, calls, existedAtStart, buckets, objects, created,
          backendFaulty>>

mainVars == <<env, file, mainPc, config, openaiClient, minioClient>>
storeVars == <<buckets, objects, created>>

\* ------------------------------------------------- configuration (viper)
\* viper.SetDefault("port", "8080"); viper.SetDefault("minio_url", ...).
defaults == [k \in Keys |-> CASE k = "port" -> "8080"
                              [] k = "minio_url" -> "localhost:9000"
                              [] OTHER -> Unset]

\* AutomaticEnv with prefix APP: the value of APP_<KEY>; an empty variable
\* counts as unset.
getEnv(k) == IF env[k] # Unset /\ env[k] # "" THEN env[k] ELSE Unset

\* The keys viper knows when it unmarshals: those of the config file and of
\* the defaults.  AutomaticEnv declares no key, and main.go binds none.
AllKeys == {k \in Keys : file[k] # Unset \/ defaults[k] # Unset}

\* viper's lookup of a known key: environment, then file, then default.
find(k) == IF getEnv(k) # Unset THEN getEnv(k)
           ELSE IF file[k] # Unset THEN file[k]
           ELSE defaults[k]

\* viper.Unmarshal(&config): a field is set from each known key, and a field
\* with no known key keeps the value it has.
Unmarshal(k, old) == IF k \in AllKeys THEN find(k) ELSE old

ZeroConfig == [Port |-> "", OpenAIKey |-> "", MinIOURL |-> "",
               MinIOKey |-> "", MinIOSecret |-> ""]

\* The mapstructure tag of each Config field.
FieldKey == [Port |-> "port", OpenAIKey |-> "openai_key",
             MinIOURL |-> "minio_url", MinIOKey |-> "minio_key",
             MinIOSecret |-> "minio_secret"]

InitConfig ==
  /\ mainPc = "initConfig"
  /\ config' = [fld \in DOMAIN FieldKey |-> Unmarshal(FieldKey[fld], config[fld])]
  /\ mainPc' = "initClients"
  /\ UNCHANGED <<env, file, openaiClient, minioClient, pc, op, input, local,
                 resp, calls, existedAtStart, buckets, objects, created,
                 backendFaulty>>

\* ------------------------------------------------------------ clients
openaiEnabled == config.OpenAIKey # ""
minioEnabled == config.MinIOKey # "" /\ config.MinIOSecret # ""

\* minio.New may return an error, and then a nil client.
InitClients ==
  /\ mainPc = "initClients"
  /\ openaiClient' = IF openaiEnabled THEN TRUE ELSE openaiClient
  /\ IF minioEnabled
       THEN \E newOk \in BOOLEAN : minioClient' = newOk
       ELSE minioClient' = minioClient
  /\ mainPc' = "serve"
  /\ UNCHANGED <<env, file, config, pc, op, input, local, resp, calls,
                 existedAtStart, buckets, objects, created, backendFaulty>>

\* ------------------------------------------------------- response shapes
NoInput == [message |-> "", bucket_name |-> "", file_name |-> "", content |-> ""]
NoLocal == [exists |-> FALSE, err |-> Nil, choices |-> <<>>]
NoResp == [status |-> 0, body |-> [none |-> TRUE]]

Ok200(body) == [status |-> 200, body |-> body]
Error400BadRequest(msg) ==
  [status |-> 400, body |-> [title |-> "Bad Request", detail |-> msg, errors |-> <<>>]]
Error500InternalServerError(msg, err) ==
  [status |-> 500,
   body |-> [title |-> "Internal Server Error", detail |-> msg, errors |-> <<err>>]]

FileUploadResponse(success, message) ==
  Ok200([success |-> success, message |-> message])

handlerVars == <<pc, op, input, local, resp, calls, existedAtStart>>

\* ------------------------------------------------------------- POST /chat
\* The nil check left out.
chatClientMissingUnchecked == FALSE

\* if openaiClient == nil
chatClientMissing == ~openaiClient

chatNotConfigured == Error400BadRequest("OpenAI client not configured")

\* The provider's error swallowed into a default reply.
chatUpstreamErrorSwallowed(err) == Ok200([reply |-> "No response"])

\* if err != nil { return nil, huma.Error500InternalServerError(...) }
chatUpstreamError(err) ==
  Error500InternalServerError("Failed to get OpenAI response", err)

\* The last choice taken instead of the first.
chatReplyLast(choices) ==
  IF Len(choices) > 0 THEN choices[Len(choices)] ELSE "No response"

\* reply := "No response"; if len(resp.Choices) > 0 { reply = resp.Choices[0]... }
chatReply(choices) == IF Len(choices) > 0 THEN choices[1] ELSE "No response"

ChatResponse(reply) == Ok200([reply |-> reply])

\* A /chat request arrives and the handler runs up to the provider call.
ChatStart(r) ==
  /\ mainPc = "serve"
  /\ pc[r] = "idle"
  /\ \E m \in Messages :
       input' = [input EXCEPT ![r] = [NoInput EXCEPT !.message = m]]
  /\ op' = [op EXCEPT ![r] = "chat"]
  /\ IF chatClientMissing
       THEN /\ resp' = [resp EXCEPT ![r] = chatNotConfigured]
            /\ pc' = [pc EXCEPT ![r] = "done"]
       ELSE /\ resp' = resp
            /\ pc' = [pc EXCEPT ![r] = "chat_call"]
  /\ UNCHANGED <<local, calls, existedAtStart, mainVars, storeVars, backendFaulty>>

\* openaiClient.CreateChatCompletion returns, with an error or with choices.
ChatCall(r) ==
  /\ pc[r] = "chat_call"
  /\ calls' = [calls EXCEPT ![r] = Append(@, "CreateChatCompletion")]
  /\ \/ \E e \in ProviderErrors :
          /\ local' = [local EXCEPT ![r].err = e]
          /\ resp' = [resp EXCEPT ![r] = chatUpstreamError(e)]
     \/ \E cs \in ChoiceLists :
          /\ local' = [local EXCEPT ![r].choices = cs]
          /\ resp' = [resp EXCEPT ![r] = ChatResponse(chatReply(cs))]
  /\ pc' = [pc EXCEPT ![r] = "done"]
  /\ UNCHANGED <<op, input, existedAtStart, mainVars, storeVars, backendFaulty>>

\* ----------------------------------------------------------- POST /upload
\* if minioClient == nil
uploadClientMissing == ~minioClient

\* The absent client reported the way /chat reports it.
uploadNotConfiguredAsError == Error400BadRequest("MinIO client not configured")

uploadNotConfigured == FileUploadResponse(FALSE, "MinIO client not configured")

\* A failed step reported as an HTTP error.
uploadFailureAsHttpError(what, err) == Error500InternalServerError(what, err)

\* fmt.Sprintf("<step>: %v", err) in a FileUploadResponse with Success false.
uploadFailure(what, err) == FileUploadResponse(FALSE, what \o ": " \o err)

uploadSuccess(in) ==
  FileUploadResponse(TRUE, "File " \o in.file_name
                           \o " uploaded successfully to bucket " \o in.bucket_name)

\* The result of the existence check ignored.
afterExistsAlwaysMake(ex) == "upload_make"

\* The existence check repeated after the creation.
afterMakeRecheck == "upload_exists"

\* if !exists { MakeBucket } ... PutObject
afterExists(ex) == IF ~ex THEN "upload_make" ELSE "upload_put"
\* after a successful MakeBucket the handler goes on to PutObject
afterMake == "upload_put"

\* Errors the storage provider may return for reasons of its own.
backendErrors == IF backendFaulty THEN ProviderErrors ELSE {}

\* The provider's rejection of the creation of a bucket that exists.
BucketAlreadyOwnedByYou ==
  "Your previous request to create the named bucket succeeded and you already own it."
NoSuchBucket == "The specified bucket does not exist"

\* An /upload request arrives and the handler runs up to the first call.
UploadStart(r) ==
  /\ mainPc = "serve"
  /\ pc[r] = "idle"
  /\ \E b \in BucketNames, f \in FileNames, c \in Contents :
       /\ input' = [input EXCEPT ![r] =
                      [NoInput EXCEPT !.bucket_name = b, !.file_name = f,
                                      !.content = c]]
       /\ existedAtStart' = [existedAtStart EXCEPT ![r] = b \in buckets]
  /\ op' = [op EXCEPT ![r] = "upload"]
  /\ IF uploadClientMissing
       THEN /\ resp' = [resp EXCEPT ![r] = uploadNotConfigured]
            /\ pc' = [pc EXCEPT ![r] = "done"]
       ELSE /\ resp' = resp
            /\ pc' = [pc EXCEPT ![r] = "upload_exists"]
  /\ UNCHANGED <<local, calls, mainVars, storeVars, backendFaulty>>

\* minioClient.BucketExists returns.
BucketExists(r) ==
  /\ pc[r] = "upload_exists"
  /\ calls' = [calls EXCEPT ![r] = Append(@, "BucketExists")]
  /\ \/ \E e \in backendErrors :
          /\ local' = [local EXCEPT ![r].err = e]
          /\ resp' = [resp EXCEPT ![r] =
                        uploadFailure("Failed to check bucket existence", e)]
          /\ pc' = [pc EXCEPT ![r] = "done"]
     \/ LET ex == input[r].bucket_name \in buckets IN
          /\ local' = [local EXCEPT ![r].exists = ex]
          /\ resp' = resp
          /\ pc' = [pc EXCEPT ![r] = afterExists(ex)]
  /\ UNCHANGED <<op, input, existedAtStart, mainVars, storeVars, backendFaulty>>

\* minioClient.MakeBucket returns.
MakeBucket(r) ==
  /\ pc[r] = "upload_make"
  /\ calls' = [calls EXCEPT ![r] = Append(@, "MakeBucket")]
  /\ LET b == input[r].bucket_name
         rejected == IF b \in buckets THEN {BucketAlreadyOwnedByYou} ELSE {}
     IN \/ \E e \in rejected \cup backendErrors :
             /\ local' = [local EXCEPT ![r].err = e]
             /\ resp' = [resp EXCEPT ![r] = uploadFailure("Failed to create bucket", e)]
             /\ pc' = [pc EXCEPT ![r] = "done"]
             /\ UNCHANGED storeVars
        \/ /\ b \notin buckets
           /\ buckets' = buckets \cup {b}
           /\ created' = [created EXCEPT ![b] = @ + 1]
           /\ local' = local
           /\ resp' = resp
           /\ pc' = [pc EXCEPT ![r] = afterMake]
           /\ UNCHANGED objects
  /\ UNCHANGED <<op, input, existedAtStart, mainVars, backendFaulty>>

\* minioClient.PutObject returns.
PutObject(r) ==
  /\ pc[r] = "upload_put"
  /\ calls' = [calls EXCEPT ![r] = Append(@, "PutObject")]
  /\ LET b == input[r].bucket_name
         rejected == IF b \notin buckets THEN {NoSuchBucket} ELSE {}
     IN \/ \E e \in rejected \cup backendErrors :
             /\ local' = [local EXCEPT ![r].err = e]
             /\ resp' = [resp EXCEPT ![r] = uploadFailure("Failed to upload file", e)]
             /\ UNCHANGED objects
        \/ /\ b \in buckets
           /\ objects' = [objects EXCEPT ![<<b, input[r].file_name>>] = input[r].content]
           /\ local' = local
           /\ resp' = [resp EXCEPT ![r] = uploadSuccess(input[r])]
  /\ pc' = [pc EXCEPT ![r] = "done"]
  /\ UNCHANGED <<op, input, existedAtStart, mainVars, buckets, created, backendFaulty>>

\* ------------------------------------------------------------ GET /health
\* The flags taken from the configuration instead of the clients.
healthStatusFromConfig ==
  [status |-> "healthy",
   services |-> [openai |-> openaiEnabled, minio |-> minioEnabled],
   config |-> [port |-> config.Port, minio_url |-> config.MinIOURL]]

healthStatus ==
  [status |-> "healthy",
   services |-> [openai |-> openaiClient, minio |-> minioClient],
   config |-> [port |-> config.Port, minio_url |-> config.MinIOURL]]

Health(r) ==
  /\ mainPc = "serve"
  /\ pc[r] = "idle"
  /\ op' = [op EXCEPT ![r] = "health"]
  /\ resp' = [resp EXCEPT ![r] = Ok200(healthStatus)]
  /\ pc' = [pc EXCEPT ![r] = "done"]
  /\ UNCHANGED <<input, local, calls, existedAtStart, mainVars, storeVars, backendFaulty>>

\* The response has been sent and the goroutine ends; the next request of
\* this slot starts from fresh locals.
Finish(r) ==
  /\ pc[r] = "done"
  /\ pc' = [pc EXCEPT ![r] = "idle"]
  /\ op' = [op EXCEPT ![r] = "none"]
  /\ input' = [input EXCEPT ![r] = NoInput]
  /\ local' = [local EXCEPT ![r] = NoLocal]
  /\ resp' = [resp EXCEPT ![r] = NoResp]
  /\ calls' = [calls EXCEPT ![r] = <<>>]
  /\ existedAtStart' = [existedAtStart EXCEPT ![r] = FALSE]
  /\ UNCHANGED <<mainVars, storeVars, backendFaulty>>

\* ------------------------------------------------------- specifications
NoEnv == [k \in Keys |-> Unset]

\* The state of the process when main starts, with the given sources.
InitWith(envs, files) ==
  /\ env \in envs
  /\ file \in files
  /\ mainPc = "initConfig"
  /\ config = ZeroConfig
  /\ openaiClient = FALSE
  /\ minioClient = FALSE
  /\ pc = [r \in Workers |-> "idle"]
  /\ op = [r \in Workers |-> "none"]
  /\ input = [r \in Workers |-> NoInput]
  /\ local = [r \in Workers |-> NoLocal]
  /\ resp = [r \in Workers |-> NoResp]
  /\ calls = [r \in Workers |-> <<>>]
  /\ existedAtStart = [r \in Workers |-> FALSE]
  /\ buckets \in SUBSET BucketNames
  /\ objects = [o \in BucketNames \X FileNames |-> Unset]
  /\ created = [b \in BucketNames |-> 0]
  /\ backendFaulty \in BOOLEAN

\* The service: the credentials come from config.yaml or are left out.
ServeFiles == {f \in FileSources : f["port"] = Unset /\ f["minio_url"] = Unset}

Init == InitWith({NoEnv}, ServeFiles)

Next ==
  \/ InitConfig
  \/ InitClients
  \/ \E r \in Workers : ChatStart(r)
  \/ \E r \in Workers : ChatCall(r)
  \/ \E r \in Workers : UploadStart(r)
  \/ \E r \in Workers : BucketExists(r)
  \/ \E r \in Workers : MakeBucket(r)
  \/ \E r \in Workers : PutObject(r)
  \/ \E r \in Workers : Health(r)
  \/ \E r \in Workers : Finish(r)

Spec == Init /\ [][Next]_vars

\* Start-up alone, over every combination of environment and config file.
InitConfigAll == InitWith(EnvSources, FileSources)

NextConfig ==
  \/ InitConfig
  \/ InitClients

SpecConfig == InitConfigAll /\ [][NextConfig]_vars

\* The service with its requests issued one after another.
NextSeq ==
  \/ InitConfig
  \/ InitClients
  \/ ChatStart(1)
  \/ ChatCall(1)
  \/ UploadStart(1)
  \/ BucketExists(1)
  \/ MakeBucket(1)
  \/ PutObject(1)
  \/ Health(1)
  \/ Finish(1)

SpecSeq == Init /\ [][NextSeq]_vars

TypeOK ==
  /\ mainPc \in {"initConfig", "initClients", "serve"}
  /\ openaiClient \in BOOLEAN /\ minioClient \in BOOLEAN
  /\ \A r \in Workers :
       pc[r] \in {"idle", "chat_call", "upload_exists", "upload_make",
                  "upload_put", "done"}
  /\ buckets \subseteq BucketNames

\* ================================================================ claims
Last(s) == s[Len(s)]
Made(r, call) == \E i \in 1..Len(calls[r]) : calls[r][i] = call
Serving == mainPc = "serve"

\* C1: with an empty completion key, every /chat request is answered with
\* HTTP 400 and the completion provider is not called.
ChatWithoutKeyIs400 ==
  \A r \in Workers :
    (Serving /\ config.OpenAIKey = "" /\ op[r] = "chat")
      => /\ pc[r] = "done"
         /\ resp[r].status = 400
         /\ calls[r] = <<>>

ChatWithoutKeyIs400Witness ==
  \E r \in Workers, q \in Workers :
    /\ r # q
    /\ config.OpenAIKey = "" /\ op[r] = "chat" /\ pc[r] = "done"
    /\ resp[r].status = 400
    /\ op[q] = "upload" /\ pc[q] = "done"

\* C2 as stated: with an empty storage key or secret, every /upload request
\* is answered with HTTP 200, success false and the message
\* "storage client not configured", with no call to the storage provider.
UploadWithoutCredsStorageMessage ==
  \A r \in Workers :
    (Serving /\ (config.MinIOKey = "" \/ config.MinIOSecret = "") /\ op[r] = "upload")
      => /\ pc[r] = "done"
         /\ resp[r] = Ok200([success |-> FALSE,
                             message |-> "storage client not configured"])
         /\ calls[r] = <<>>

\* C2 as amended: the same, with the message "MinIO client not configured".
UploadWithoutCredsMinIOMessage ==
  \A r \in Workers :
    (Serving /\ (config.MinIOKey = "" \/ config.MinIOSecret = "") /\ op[r] = "upload")
      => /\ pc[r] = "done"
         /\ resp[r] = Ok200([success |-> FALSE,
                             message |-> "MinIO client not configured"])
         /\ calls[r] = <<>>

UploadWithoutCredsWitness ==
  \E r \in Workers :
    /\ config.MinIOKey # "" /\ config.MinIOSecret = ""
    /\ op[r] = "upload" /\ pc[r] = "done"
    /\ resp[r].body.success = FALSE
    /\ input[r].bucket_name = "test"

\* C3: every /health response is HTTP 200 with status "healthy", flags equal
\* to the presence of the two clients built at start-up, and the port and
\* storage endpoint of the configuration; the handler calls no provider.
HealthReportsStartup ==
  \A r \in Workers :
    op[r] = "health"
      => /\ pc[r] = "done"
         /\ resp[r].status = 200
         /\ resp[r].body.status = "healthy"
         /\ resp[r].body.services.openai = openaiClient
         /\ resp[r].body.services.minio = minioClient
         /\ openaiClient = openaiEnabled
         /\ minioClient => minioEnabled
         /\ resp[r].body.config = [port |-> config.Port, minio_url |-> config.MinIOURL]
         /\ calls[r] = <<>>

\* A health check answered while minio.New had failed at start-up and another
\* request has had its provider call fail.
HealthReportsStartupWitness ==
  \E r \in Workers, q \in Workers :
    /\ op[r] = "health" /\ pc[r] = "done"
    /\ resp[r].body.services = [openai |-> TRUE, minio |-> FALSE]
    /\ minioEnabled
    /\ op[q] = "chat" /\ pc[q] = "done" /\ local[q].err # Nil

\* The outcome of a finished /upload, with the given message of each step.
UploadOutcome(r, checkMsg, createMsg, writeMsg) ==
  /\ resp[r].status = 200
  /\ (local[r].err # Nil) =>
       /\ resp[r].body.success = FALSE
       /\ Last(calls[r]) = "BucketExists" =>
            /\ resp[r].body.message = checkMsg \o ": " \o local[r].err
            /\ calls[r] = <<"BucketExists">>
       /\ Last(calls[r]) = "MakeBucket" =>
            /\ resp[r].body.message = createMsg \o ": " \o local[r].err
            /\ ~Made(r, "PutObject")
       /\ Last(calls[r]) = "PutObject" =>
            resp[r].body.message = writeMsg \o ": " \o local[r].err
  /\ resp[r].body.success =>
       /\ local[r].err = Nil
       /\ Last(calls[r]) = "PutObject"
       /\ objects[<<input[r].bucket_name, input[r].file_name>>] # Unset

\* C4 as stated: every /upload response is HTTP 200; a failed step gives
\* success false with the message "failed to check bucket existence: <err>",
\* "failed to create bucket: <err>" or "failed to upload file: <err>" and no
\* later step is attempted; success is true only when the write succeeded.
UploadFailuresInBandLowercase ==
  \A r \in Workers :
    (op[r] = "upload" /\ pc[r] = "done" /\ calls[r] # <<>>)
      => UploadOutcome(r, "failed to check bucket existence",
                          "failed to create bucket", "failed to upload file")

\* C4 as amended: the same, with the messages the handler formats:
\* "Failed to check bucket existence: <err>", "Failed to create bucket: <err>",
\* "Failed to upload file: <err>".
UploadFailuresInBand ==
  \A r \in Workers :
    /\ (op[r] = "upload" /\ pc[r] = "done") => resp[r].status = 200
    /\ (op[r] = "upload" /\ pc[r] = "done" /\ calls[r] # <<>>)
         => UploadOutcome(r, "Failed to check bucket existence",
                             "Failed to create bucket", "Failed to upload file")

\* One request failed at the creation step while another got through.
UploadFailuresInBandWitness ==
  \E r \in Workers, q \in Workers :
    /\ op[r] = "upload" /\ pc[r] = "done" /\ calls[r] # <<>>
    /\ Last(calls[r]) = "MakeBucket" /\ local[r].err \in ProviderErrors
    /\ resp[r].body.success = FALSE
    /\ op[q] = "upload" /\ pc[q] = "done" /\ resp[q].body.success

\* C5: a /chat whose provider call succeeded is answered with HTTP 200 and a
\* reply that is "No response" for zero choices and the first choice otherwise.
ChatReplyIsFirstChoice ==
  \A r \in Workers :
    (op[r] = "chat" /\ pc[r] = "done" /\ openaiClient /\ local[r].err = Nil)
      => /\ resp[r].status = 200
         /\ local[r].choices = <<>> => resp[r].body.reply = "No response"
         /\ local[r].choices # <<>> => resp[r].body.reply = local[r].choices[1]

ChatReplyIsFirstChoiceWitness ==
  \E r \in Workers, q \in Workers :
    /\ op[r] = "chat" /\ pc[r] = "done" /\ calls[r] # <<>>
    /\ local[r].err = Nil /\ local[r].choices = <<>>
    /\ resp[r].body.reply = "No response"
    /\ op[q] = "chat" /\ pc[q] = "done"
    /\ Len(local[q].choices) = MaxChoices
    /\ local[q].choices[1] # Last(local[q].choices)
    /\ resp[q].body.reply = local[q].choices[1]

\* C6: a /chat whose provider call returned an error is answered with HTTP
\* 500 carrying the provider's error text, and the provider is called once.
ChatUpstreamErrorIs500 ==
  \A r \in Workers :
    op[r] = "chat" =>
      /\ Len(calls[r]) <= 1
      /\ (pc[r] = "done" /\ local[r].err # Nil)
           => /\ resp[r].status = 500
              /\ resp[r].body.errors = <<local[r].err>>
              /\ calls[r] = <<"CreateChatCompletion">>

ChatUpstreamErrorIs500Witness ==
  \E r \in Workers :
    /\ op[r] = "chat" /\ pc[r] = "done" /\ openaiClient
    /\ local[r].err \in ProviderErrors
    /\ resp[r].status = 500

\* The merge of the three layers, defaults < file < environment.
merged(k) == IF env[k] # Unset THEN env[k]
             ELSE IF file[k] # Unset THEN file[k]
             ELSE IF defaults[k] # Unset THEN defaults[k]
             ELSE ""

\* C7: once loaded, every field of the configuration holds the environment's
\* value if there is one, else the file's, else the default.
ConfigIsLayeredMerge ==
  mainPc # "initConfig"
    => \A fld \in DOMAIN FieldKey : config[fld] = merged(FieldKey[fld])

\* C8: with requests issued one after another against a working storage
\* client, bucket creation is attempted only by a request whose existence
\* check reported the bucket absent, never by a request that arrived when the
\* bucket existed, and every request ends in success with the message
\* "File <file_name> uploaded successfully to bucket <bucket_name>".
SequentialUploadsCreateOnce ==
  \A r \in Workers :
    (op[r] = "upload" /\ minioClient /\ ~backendFaulty)
      => /\ Made(r, "MakeBucket") => (calls[r][1] = "BucketExists" /\ ~local[r].exists)
         /\ existedAtStart[r] => ~Made(r, "MakeBucket")
         /\ created[input[r].bucket_name] <= 1
         /\ pc[r] = "done" =>
              resp[r] = Ok200([success |-> TRUE,
                               message |-> "File " \o input[r].file_name
                                           \o " uploaded successfully to bucket "
                                           \o input[r].bucket_name])

\* A repeated upload: the bucket was created by an earlier request and this
\* one, arriving afterwards, has succeeded.
SequentialUploadsCreateOnceWitness ==
  \E r \in Workers :
    /\ op[r] = "upload" /\ pc[r] = "done" /\ ~backendFaulty
    /\ existedAtStart[r] /\ created[input[r].bucket_name] = 1
    /\ objects[<<input[r].bucket_name, input[r].file_name>>] # Unset
    /\ calls[r] = <<"BucketExists", "PutObject">>
    /\ resp[r].body.success

\* C9 as stated: no handler invocation makes more than one provider call.
AtMostOneProviderCall ==
  \A r \in Workers : Len(calls[r]) <= 1

\* C9 as amended: a /chat invocation makes at most one provider call, a
\* /health invocation none, and an /upload invocation at most three, in this
\* order and each at most once: the existence check, the bucket creation,
\* the object write.
ProviderCallsPerInvocation ==
  \A r \in Workers :
    /\ op[r] \in {"none", "health"} => calls[r] = <<>>
    /\ op[r] = "chat" => calls[r] \in {<<>>, <<"CreateChatCompletion">>}
    /\ op[r] = "upload" =>
         calls[r] \in {<<>>, <<"BucketExists">>,
                       <<"BucketExists", "MakeBucket">>,
                       <<"BucketExists", "PutObject">>,
                       <<"BucketExists", "MakeBucket", "PutObject">>}

ProviderCallsPerInvocationWitness ==
  \E r \in Workers, q \in Workers :
    /\ op[r] = "upload" /\ pc[r] = "done"
    /\ calls[r] = <<"BucketExists", "MakeBucket", "PutObject">>
    /\ op[q] = "chat" /\ pc[q] = "done"
    /\ calls[q] = <<"CreateChatCompletion">>

\* C10: two /upload requests for the same bucket, both arrived while it did
\* not exist, against a provider that fails only by rejecting the creation of
\* an existing bucket, both end in success and the bucket is created once.
ConcurrentUploadsBothSucceed ==
  \A r \in Workers, q \in Workers :
    ( /\ r # q /\ ~backendFaulty
      /\ op[r] = "upload" /\ op[q] = "upload"
      /\ pc[r] = "done" /\ pc[q] = "done"
      /\ Made(r, "BucketExists") /\ Made(q, "BucketExists")
      /\ input[r].bucket_name = input[q].bucket_name
      /\ ~existedAtStart[r] /\ ~existedAtStart[q] )
      => /\ resp[r].body.success
         /\ resp[q].body.success
         /\ created[input[r].bucket_name] = 1

====
